---- MODULE Spec2Model ----
(***************************************************************************)
(* A model of tsunami's provisioning engines.                              *)
(*                                                                         *)
(*   Spec       the AWS launcher (providers/aws.rs): AWSLauncher::launch,  *)
(*              the stages of AWSRegion and impl Drop for AWSRegion, run   *)
(*              by one caller thread against a nondeterministic provider.  *)
(*   FairSpec   Spec with weak fairness on the steps of a drop.            *)
(*   TimedSpec  Spec with weak fairness on the turns of the readiness      *)
(*              loop during which time passes.                             *)
(*   SpawnSpec  TsunamiBuilder (lib.rs) and the generic dispatcher         *)
(*              Launcher::spawn (providers/mod.rs).                        *)
(*   EngineSpec the Azure and the baremetal launchers.                     *)
(*   DurationSpec  the block duration of the AWS launcher's requests.      *)
(***************************************************************************)
EXTENDS Integers, Sequences, FiniteSets, TLC

\* ------------------------------------------------------------------ bounds

\* AWSRegion values constructed in one run (launch calls and Default values).
MaxCtx == 2
\* Spot requests issued in one run, over all its launch calls.
MaxSirs == 2
\* The Duration of a max_wait that is Some, in ticks.
Deadline == 2
\* thread::sleep(Duration::from_secs(1)) of the polling loop, in ticks.
PollInterval == 1
\* The largest time told apart: later than one poll interval past the deadline.
MaxElapsed == Deadline + 2 * PollInterval
\* The time the provider calls (and the ssh work) of one turn of a loop take.
Latency == {0, 1}

\* ------------------------------------------------------------- input sets

RegionKeys == {"us-east-1", "us-west-2"}

NicknamePool == <<"a", "b", "c", "d">>

Nicknames == { NicknamePool[i] : i \in 1..MaxSirs }

NicknameIndex(n) == CHOOSE i \in 1..Len(NicknamePool) : NicknamePool[i] = n

\* MachineSetup values: two (ami, instance_type) keys, one with a setup closure.
MachineSetups ==
    { [ami |-> "ami-1", instance_type |-> "t3.small", setup |-> FALSE],
      [ami |-> "ami-1", instance_type |-> "t3.large", setup |-> TRUE] }

Pairs == Nicknames \X MachineSetups

\* LaunchDescriptor.machines : Vec<(String, M)>, not empty; the nicknames of
\* one batch are distinct and listed in the order of the pool.
Batches ==
    { b \in UNION { [1..n -> Pairs] : n \in 1..MaxSirs } :
        \A i, j \in DOMAIN b :
            i < j => NicknameIndex(b[i][1]) < NicknameIndex(b[j][1]) }

\* Option<Duration>
MaxWaits == {"None", "Some"}

\* ----------------------------------------------------------------- state

VARIABLES
    pc,         \* position of the caller thread
    ret,        \* what the caller does once the running Drop has returned
    regions,    \* AWSLauncher.regions : region key -> AWSRegion (0: no entry)
    ctxs,       \* every AWSRegion value constructed so far, by identity
    cur,        \* launch's local `awsregion`
    dropping,   \* the AWSRegion value impl Drop is running on
    dropq,      \* values of a discarded launcher's map still to be dropped
    l,          \* the LaunchDescriptor of the running launch
    todo,       \* make_spot_instance_requests: groups not yet requested
    termReq,    \* Drop: instance_ids of the TerminateInstancesRequest
    failed,     \* Drop: the steps of the last drop that failed for good
    result,     \* what the last launch returned
    sirs,       \* provider: every spot request, its owner and its state
    calls,      \* provider calls issued so far, by kind
    hist,       \* history of each AWSRegion value (not program state)
    elapsed,    \* start.elapsed() of the running stage, as its deadline check
                \* reads it (0 with no deadline); kept until the drop begins
    error,      \* the Err launch is returning while its local is dropped
    setups,     \* wait_for_instances: instance -> times it was brought up
                \* (ssh connect and setup) in this call (not program state)
    connected   \* what the last connect_all returned, while the caller holds it

awsVars == <<pc, ret, regions, ctxs, cur, dropping, dropq, l, todo, termReq,
             failed, result, sirs, calls, hist, elapsed, error, setups,
             connected>>

\* The dispatcher: a TsunamiBuilder, the spawn call in progress and the
\* launcher as spawn sees it.
VARIABLES
    descriptors,  \* TsunamiBuilder.descriptors : nickname -> machine
    addResult,    \* what the last add returned
    given,        \* the pairs in the order the caller gave them (not program state)
    handed,       \* spawn: the pairs in the order the iterator hands them out
    groups,       \* spawn: the (region, setups) groups the for loop has yet to visit
    batches,      \* the launch calls of the last spawn, in order (not program state)
    held,         \* launcher: region key -> the value it holds (id: its launch call)
    torn,         \* launcher: the values dropped during the last spawn, by id
    launches,     \* launch calls made so far (not program state)
    spc,          \* position of the caller of the dispatcher
    sresult,      \* what the last spawn returned
    used,         \* pairs the caller has given so far (not program state)
    spawn_max_wait  \* TsunamiBuilder.max_wait, or the max_wait given to
                    \* Launcher::spawn (0: None, else Some of so many ticks)

spawnVars == <<descriptors, addResult, given, handed, groups, batches, held,
               torn, launches, spc, sresult, used, spawn_max_wait>>

\* The other engines: an AzureLauncher with its AzureRegion values and the
\* resource groups of the CLI, and one baremetal Machine.
VARIABLES
    azpc,         \* position of the caller of the AzureLauncher
    azRet,        \* what that caller does once the running Drop has returned
    azResult,     \* what the last AzureLauncher::launch returned
    azRegions,    \* AzureLauncher.regions : region key -> AzureRegion (0: no entry)
    azCtxs,       \* every AzureRegion value constructed so far, by identity
    azCur,        \* launch's local `az_region`
    azTodo,       \* AzureRegion::launch: the pairs the map has yet to visit
    azDone,       \* AzureRegion::launch: the Descriptors collected so far
    azDropping,   \* the AzureRegion value impl Drop is running on
    azDropq,      \* values of a discarded launcher's map still to be dropped
    azGroups,     \* CLI: every resource group created, and the VMs in it
    bm,           \* the baremetal Machine
    bmpc          \* position of the owner of the baremetal Machine

engineVars == <<azpc, azRet, azResult, azRegions, azCtxs, azCur, azTodo, azDone,
                azDropping, azDropq, azGroups, bm, bmpc>>

\* The duration policy of the AWSLauncher, on its own: the field that
\* set_max_instance_duration writes and the block duration launch derives
\* from it.
VARIABLES
    max_instance_duration_hours,  \* AWSLauncher.max_instance_duration_hours
    block_duration_minutes,       \* the duration launch last gave to
                                  \* make_spot_instance_requests
    dpc                           \* "built", "requested" (launch computed the
                                  \* duration) or "panicked"

durationVars == <<max_instance_duration_hours, block_duration_minutes, dpc>>

vars == <<awsVars, durationVars, spawnVars, engineVars>>

\* --------------------------------------------------------------- helpers

Range(f) == { f[x] : x \in DOMAIN f }

\* A removal that leaves every entry in place.
Restrict_keeps(f, S) == f

\* HashMap::remove of the keys outside S.
Restrict(f, S) == [x \in S |-> f[x]]

\* All the orders in which a HashMap may hand out the elements of S.
Orders(S) == { s \in [1..Cardinality(S) -> S] : Range(s) = S }

\* A group map that keeps only the last value of each key.
RECURSIVE into_group_map_keeps_last(_)
into_group_map_keeps_last(kvs) ==
    IF kvs = <<>> THEN <<>>
    ELSE LET rest == into_group_map_keeps_last(SubSeq(kvs, 1, Len(kvs) - 1))
             k == kvs[Len(kvs)][1]
             v == kvs[Len(kvs)][2]
         IN  IF k \in DOMAIN rest
             THEN [rest EXCEPT ![k] = <<v>>]
             ELSE rest @@ (k :> <<v>>)

\* itertools::Itertools::into_group_map on a sequence of <<key, value>>:
\* key -> the values of that key, in the order of the sequence.
RECURSIVE into_group_map(_)
into_group_map(kvs) ==
    IF kvs = <<>> THEN <<>>
    ELSE LET rest == into_group_map(SubSeq(kvs, 1, Len(kvs) - 1))
             k == kvs[Len(kvs)][1]
             v == kvs[Len(kvs)][2]
         IN  IF k \in DOMAIN rest
             THEN [rest EXCEPT ![k] = Append(@, v)]
             ELSE rest @@ (k :> <<v>>)

NoDescriptor == [region |-> "", max_wait |-> "None", machines |-> <<>>]

\* ------------------------------------------------- AWSRegion construction

\* #[derive(Default)] AWSRegion: every Option is None, every String empty.
AWSRegion_default ==
    [ security_group_id |-> 0, ssh_key_name |-> 0,
      client |-> FALSE, log |-> FALSE,
      outstanding_spot_request_ids |-> <<>>, instances |-> <<>> ]

\* AWSRegion::connect: the client, the log and the key file are Some.
connect ==
    [ AWSRegion_default EXCEPT !.client = TRUE, !.log = TRUE ]

\* AWSRegion::make_security_group under provider outcome o; id is the group id
\* the provider hands out.  The id is stored only after the three ingress
\* rules were authorised.
make_security_group(self, id, o) ==
    [ ok |-> o \notin {"sg_create_err", "sg_authorize_err"},
      made |-> o # "sg_create_err",
      self |-> IF o \in {"sg_create_err", "sg_authorize_err"} THEN self
               ELSE [self EXCEPT !.security_group_id = id] ]

\* AWSRegion::make_ssh_key under provider outcome o; the key name is stored
\* only after the private key was written to the temporary file.
make_ssh_key(self, id, o) ==
    [ ok |-> o \notin {"key_create_err", "key_write_err"},
      made |-> o # "key_create_err",
      self |-> IF o \in {"key_create_err", "key_write_err"} THEN self
               ELSE [self EXCEPT !.ssh_key_name = id] ]

NewOutcomes ==
    {"sg_create_err", "sg_authorize_err", "key_create_err", "key_write_err", "ok"}

\* AWSRegion::new: connect, then make_security_group, then make_ssh_key, each
\* `?`.  self is the value that exists when new returns (on Err: the value
\* the failing step drops).
AWSRegion_new(id, o) ==
    LET sg == make_security_group(connect, id, o)
        key == make_ssh_key(sg.self, id, o)
    IN  IF ~sg.ok
        THEN [ok |-> FALSE, self |-> sg.self, sg |-> sg.made, key |-> FALSE]
        ELSE [ok |-> key.ok, self |-> key.self, sg |-> TRUE, key |-> key.made]

\* History of one AWSRegion value.
NewHist(ok) ==
    [ created |-> ok,        \* AWSRegion::new returned Ok
      launched |-> FALSE,    \* launch returned Ok with this value
      okInst |-> {},         \* the instances it tracked when launch returned Ok
      okPending |-> {},      \* those the last answer listed as not ready then
      seenReady |-> {},      \* while its readiness stage runs: the instances
                             \* an answer has listed as running with both
                             \* addresses
      spotTook |-> 0,        \* while its readiness stage runs: the time its
                             \* fulfilment stage took, as launch measures it
      dropCalls |-> 0,       \* times Drop::drop was entered
      tornDown |-> 0,        \* times Drop::drop returned
      dropInst |-> {},       \* the instances it tracked when drop was entered
      dropReady |-> {},      \* those of them that had their address pair
      dropSg |-> 0,          \* its security_group_id when drop was entered
      dropKey |-> 0 ]        \* its ssh_key_name when drop was entered

\* An AWSRegion value after drop returned: its memory is gone.
Dropped == AWSRegion_default

\* ------------------------------------------------------------- provider

\* States of a spot request: "active_noid" is state active with no instance id
\* in the answer yet; "failed" stands for failed and closed.
SirStates == {"open", "active_noid", "active", "failed", "cancelled"}

\* What a spot request may have become when it is next described.
SirNext(st) ==
    CASE st = "open" -> {"open", "active_noid", "active", "failed"}
      [] st = "active_noid" -> {"active_noid", "active"}
      [] OTHER -> {st}

\* What a spot request may have become once a cancel call succeeded.
SirCancelled(st) ==
    CASE st = "open" -> {"cancelled", "active"}
      [] st = "active_noid" -> {"active"}
      [] OTHER -> {st}

\* The instance the provider assigns to spot request s.
InstanceOf(s) == s

\* The provider's spot requests as the next call of the caller finds them:
\* those of an AWSRegion value that is gone are no longer followed.
Settled ==
    [ s \in DOMAIN sirs |->
        IF hist[sirs[s].owner].tornDown > 0
        THEN [sirs[s] EXCEPT !.state = "unfollowed"]
        ELSE sirs[s] ]

\* No result of connect_all is held.  A result is Ok with the collected
\* HashMap as a set of <<nickname, instance>> pairs, or the Err.  With it
\* are kept the orders in which the maps of the launcher, which the result
\* borrows, were iterated (values, visit), and whether the call was the
\* first since the launcher was last changed (nth).
NoMachines ==
    [result |-> "none", err |-> "", map |-> {}, values |-> <<>>,
     visit |-> <<>>, nth |-> 0]

\* ----------------------------------------------------------------- Init

\* AWSLauncher::default(): no region is held and nothing has run.
AwsInit ==
    /\ pc = "idle"
    /\ ret = "none"
    /\ regions = [r \in RegionKeys |-> 0]
    /\ ctxs = <<>>
    /\ cur = 0
    /\ dropping = 0
    /\ dropq = {}
    /\ l = NoDescriptor
    /\ todo = <<>>
    /\ termReq = {}
    /\ failed = {}
    /\ result = "none"
    /\ sirs = <<>>
    /\ calls = [ cancel |-> {}, terminate |-> {}, create_sg |-> {},
                 delete_sg |-> {}, create_key |-> {}, delete_key |-> {} ]
    /\ hist = <<>>
    /\ elapsed = 0
    /\ error = "none"
    /\ setups = <<>>
    /\ connected = NoMachines

\* ------------------------------------------------- AWSLauncher::launch

\* A HashMap::insert that hands back nothing: the value it replaced is lost
\* without being dropped.
HashMap_insert_forgets(map, key, value) ==
    [ map |-> [map EXCEPT ![key] = value], old |-> 0 ]

\* HashMap::insert(key, value): the map afterwards and the value it replaced,
\* which the caller drops at the end of the statement.
HashMap_insert(map, key, value) ==
    [ map |-> [map EXCEPT ![key] = value], old |-> map[key] ]

\* The time after d more ticks, as a deadline check reads it.
After(d) ==
    IF l.max_wait = "Some"
    THEN (IF elapsed + d > MaxElapsed THEN MaxElapsed ELSE elapsed + d)
    ELSE 0

\* A `?` of launch after AWSRegion::new: launch returns the Err e and its
\* local awsregion, now `self`, goes out of scope.
LaunchErr(self, e) ==
    /\ error' = e
    /\ setups' = <<>>
    /\ ctxs' = [ctxs EXCEPT ![cur] = self]
    /\ hist' = [hist EXCEPT ![cur].spotTook = 0, ![cur].seenReady = {}]
    /\ dropping' = cur
    /\ ret' = "err"
    /\ pc' = "drop"
    /\ cur' = 0
    /\ l' = NoDescriptor
    /\ todo' = <<>>
    /\ UNCHANGED <<regions, result>>

\* The tail of launch: self.regions.insert(l.region, awsregion); Ok(()).
\* pending: the instances the last describe answer listed as not ready.
\* A panic inside launch: the stack unwinds and launch's local awsregion,
\* now `self`, is dropped on the way.
LaunchPanic(self) ==
    /\ error' = "panic"
    /\ setups' = <<>>
    /\ ctxs' = [ctxs EXCEPT ![cur] = self]
    /\ dropping' = cur
    /\ ret' = "panic"
    /\ pc' = "drop"
    /\ cur' = 0
    /\ l' = NoDescriptor
    /\ todo' = <<>>
    /\ UNCHANGED <<regions, result, hist>>

LaunchOk(self, pending) ==
    LET ins == HashMap_insert(regions, l.region, cur)
    IN  /\ elapsed' = 0
        /\ setups' = <<>>
        /\ UNCHANGED error
        /\ ctxs' = [ctxs EXCEPT ![cur] = self]
        /\ regions' = ins.map
        /\ hist' = [hist EXCEPT ![cur].spotTook = 0,
                                ![cur].seenReady = {},
                                ![cur].launched = TRUE,
                                ![cur].okInst = DOMAIN self.instances,
                                ![cur].okPending = pending]
        /\ cur' = 0
        /\ l' = NoDescriptor
        /\ todo' = <<>>
        /\ IF ins.old = 0
           THEN /\ pc' = "idle"
                /\ result' = "ok"
                /\ UNCHANGED <<dropping, ret>>
           ELSE /\ pc' = "drop"
                /\ dropping' = ins.old
                /\ ret' = "ok"
                /\ UNCHANGED result

\* A group map that goes by the ami alone.
SpotGroups_by_ami(machines) ==
    into_group_map([i \in 1..Len(machines) |->
        << machines[i][2].ami, machines[i] >>])

\* The group map of make_spot_instance_requests: (ami, instance_type) ->
\* the (name, setup) pairs of that key.
SpotGroups(machines) ==
    into_group_map([i \in 1..Len(machines) |->
        << <<machines[i][2].ami, machines[i][2].instance_type>>, machines[i] >>])

\* launch, up to and including AWSRegion::new.  o is what the credential
\* provider and the provider calls of new answer; order is the order in which
\* the group map of make_spot_instance_requests hands out its groups.
AWSLauncher_launch(region, machines, max_wait, o, order) ==
    /\ pc = "idle"
    /\ UNCHANGED <<durationVars, spawnVars, engineVars>>
    /\ Len(ctxs) < MaxCtx
    /\ Len(sirs) + Len(machines) <= MaxSirs
    /\ failed' = {}
    /\ sirs' = Settled
    /\ elapsed' = 0
    /\ setups' = <<>>
    /\ connected' = NoMachines
    /\ IF o \in {"cred_err", "connect_err"}
       THEN /\ result' = "err"
            /\ UNCHANGED <<pc, ret, regions, ctxs, cur, dropping, dropq, l, todo,
                           termReq, calls, hist, error>>
       ELSE LET c == Len(ctxs) + 1
                new == AWSRegion_new(c, o)
            IN  /\ ctxs' = Append(ctxs, new.self)
                /\ hist' = Append(hist, NewHist(new.ok))
                /\ calls' = [calls EXCEPT
                      !.create_sg = IF new.sg THEN @ \cup {c} ELSE @,
                      !.create_key = IF new.key THEN @ \cup {c} ELSE @]
                /\ IF new.ok
                   THEN /\ cur' = c
                        /\ l' = [region |-> region, max_wait |-> max_wait,
                                 machines |-> machines]
                        /\ todo' = order
                        /\ pc' = "issue"
                        /\ UNCHANGED <<dropping, ret, error>>
                   ELSE /\ dropping' = c
                        /\ ret' = "err"
                        /\ error' = "new"
                        /\ pc' = "drop"
                        /\ UNCHANGED <<cur, l, todo>>
                /\ UNCHANGED <<regions, dropq, termReq, result>>

\* A launch call of the caller: any region key, batch and deadline, any
\* answer of the provider.
launch ==
    /\ pc = "idle"
    /\ \E region \in RegionKeys, machines \in Batches, max_wait \in MaxWaits,
          o \in NewOutcomes \cup {"cred_err", "connect_err"} :
          \E order \in Orders(Range(SpotGroups(machines))) :
             AWSLauncher_launch(region, machines, max_wait, o, order)

\* ------------------------------ AWSRegion::make_spot_instance_requests

\* An issuing loop that hands over to the fulfilment stage after its first
\* request, with groups still to be asked for.
make_spot_instance_requests_hurries(o) ==
    /\ pc = "issue"
    /\ UNCHANGED <<durationVars, spawnVars, engineVars, connected>>
    /\ LET self == ctxs[cur]
           reqs == Head(todo)
           base == Len(sirs)
           ids == (base + 1)..(base + Len(reqs))
       IN  IF o \in {"err", "mismatch"}
           THEN /\ LaunchErr(self, "request")
                /\ UNCHANGED sirs
           ELSE /\ UNCHANGED <<error, setups>>
                /\ sirs' = sirs \o [i \in 1..Len(reqs) |->
                                      [owner |-> cur, state |-> "open",
                                       call |-> base + 1]]
                /\ ctxs' = [ctxs EXCEPT ![cur].outstanding_spot_request_ids =
                              @ @@ [s \in ids |-> reqs[s - base]]]
                /\ todo' = Tail(todo)
                /\ pc' = "wait_spot"
                /\ UNCHANGED <<ret, regions, cur, dropping, l, result, hist>>
    /\ UNCHANGED <<dropq, termReq, failed, calls, elapsed>>

\* One turn of the loop over the groups: one request_spot_instances call.
\* "err": the call fails; "mismatch": the answer holds another number of
\* request ids than machines were asked for; "ok": one id per machine.
make_spot_instance_requests(o) ==
    /\ pc = "issue"
    /\ UNCHANGED <<durationVars, spawnVars, engineVars, connected>>
    /\ LET self == ctxs[cur]
           reqs == Head(todo)
           base == Len(sirs)
           ids == (base + 1)..(base + Len(reqs))
       IN  IF o \in {"err", "mismatch"}
           THEN /\ LaunchErr(self, "request")
                /\ UNCHANGED sirs
           ELSE /\ UNCHANGED <<error, setups>>
                /\ sirs' = sirs \o [i \in 1..Len(reqs) |->
                                      [owner |-> cur, state |-> "open",
                                       call |-> base + 1]]
                /\ ctxs' = [ctxs EXCEPT ![cur].outstanding_spot_request_ids =
                              @ @@ [s \in ids |-> reqs[s - base]]]
                /\ todo' = Tail(todo)
                /\ pc' = IF Len(todo) = 1 THEN "wait_spot" ELSE "issue"
                /\ UNCHANGED <<ret, regions, cur, dropping, l, result, hist>>
    /\ UNCHANGED <<dropq, termReq, failed, calls, elapsed>>

\* -------------------------- AWSRegion::wait_for_spot_instance_requests

\* An any_pending that takes only the open requests for pending.
any_pending_open_only(st) ==
    \E s \in DOMAIN st : st[s] = "open"

\* any_pending of one describe answer st (request id -> state).
any_pending(st) ==
    \E s \in DOMAIN st : st[s] \in {"open", "active_noid"}

\* A promotion that keeps every request, whatever its state.
Promote_all(self, st) ==
    LET out == self.outstanding_spot_request_ids
    IN  [ self EXCEPT
            !.instances = [ i \in { InstanceOf(s) : s \in DOMAIN st } |->
                [ ipinfo |-> 0,
                  m |-> out[CHOOSE s \in DOMAIN st : InstanceOf(s) = i] ] ],
            !.outstanding_spot_request_ids =
                Restrict(out, DOMAIN out \ DOMAIN st) ]

\* The assignments made when no request is pending: self.instances becomes
\* the collected map of the active requests, each with its entry removed
\* from outstanding_spot_request_ids; the other requests are only logged.
Promote(self, st) ==
    LET active == { s \in DOMAIN st : st[s] = "active" }
        out == self.outstanding_spot_request_ids
    IN  [ self EXCEPT
            !.instances = [ i \in { InstanceOf(s) : s \in active } |->
                [ ipinfo |-> 0,
                  m |-> out[CHOOSE s \in active : InstanceOf(s) = i] ] ],
            !.outstanding_spot_request_ids =
                Restrict(out, DOMAIN out \ active) ]

\* The provider's spot requests after it answered st for the requests of st.
Described(st) ==
    [ s \in DOMAIN sirs |->
        IF s \in DOMAIN st THEN [sirs[s] EXCEPT !.state = st[s]] ELSE sirs[s] ]

\* The request ids of the describe request: the keys of
\* outstanding_spot_request_ids.
SpotReq == IF cur = 0 THEN {} ELSE DOMAIN ctxs[cur].outstanding_spot_request_ids

\* A timeout path that gathers: the requests which the describe call made
\* after the cancel reports as active become tracked instances.
wait_for_spot_instance_requests_gathers(o) ==
    /\ pc = "wait_spot" /\ o = "ok" /\ l.max_wait = "Some"
    /\ UNCHANGED <<durationVars, spawnVars, engineVars, connected>>
    /\ \E st2 \in [SpotReq -> SirStates] :
         /\ \A s \in SpotReq : st2[s] \in SirCancelled(sirs[s].state)
         /\ calls' = [calls EXCEPT !.cancel = @ \cup SpotReq]
         /\ sirs' = Described(st2)
         /\ elapsed' = MaxElapsed
         /\ LaunchErr(Promote(ctxs[cur], st2), "wait limit reached")
    /\ UNCHANGED <<dropq, termReq, failed>>

\* One turn of the polling loop, whose calls take dt ticks.  o: the describe
\* call fails with the 'does not exist' message ("transient"), fails
\* otherwise ("fatal") or answers st ("ok").  With no request pending the
\* stage returns Ok and launch subtracts the time it took from its copy of
\* the deadline, `d -= ..`, which panics when more than d has passed; then
\* wait_for_instances starts its own clock.  With a request pending the loop
\* sleeps one poll interval and then checks start.elapsed() > wait_limit.
\* Past the deadline: cancel is the result of the cancel call, st2 the states
\* of the requests after it, and again the result of the second describe
\* call, made after one more sleep.
wait_for_spot_instance_requests(o) ==
    /\ pc = "wait_spot"
    /\ UNCHANGED <<durationVars, spawnVars, engineVars, connected>>
    /\ \E dt \in Latency :
       LET self == ctxs[cur]
           req == SpotReq
           slept == After(dt + PollInterval)
       IN  CASE o = "transient" ->
                 /\ pc' = "wait_spot_continue"
                 /\ elapsed' = After(dt)
                 /\ UNCHANGED <<ret, regions, ctxs, cur, dropping, l, todo,
                                result, hist, sirs, calls, error, setups>>
             [] o = "fatal" ->
                 /\ LaunchErr(self, "describe")
                 /\ elapsed' = After(dt)
                 /\ UNCHANGED <<sirs, calls>>
             [] o = "ok" ->
                 \E st \in [req -> SirStates] :
                   /\ \A s \in req : st[s] \in SirNext(sirs[s].state)
                   /\ IF ~any_pending(st)
                      THEN IF l.max_wait = "Some" /\ After(dt) > Deadline
                           THEN /\ LaunchPanic(Promote(self, st))
                                /\ sirs' = Described(st)
                                /\ elapsed' = After(dt)
                                /\ UNCHANGED calls
                           ELSE /\ ctxs' = [ctxs EXCEPT ![cur] = Promote(self, st)]
                                /\ pc' = "wait_inst"
                                /\ sirs' = Described(st)
                                /\ elapsed' = 0
                                /\ hist' = [hist EXCEPT ![cur].spotTook = After(dt)]
                                /\ setups' = [i \in DOMAIN Promote(self, st).instances |-> 0]
                                /\ UNCHANGED <<ret, regions, cur, dropping, l,
                                               todo, result, calls, error>>
                      ELSE IF l.max_wait = "Some" /\ slept > Deadline
                           THEN /\ calls' = [calls EXCEPT !.cancel = @ \cup req]
                                /\ \E cancel \in {"ok", "err"} :
                                     IF cancel = "err"
                                     THEN /\ sirs' = Described(st)
                                          /\ elapsed' = slept
                                          /\ LaunchErr(self, "cancel")
                                     ELSE \E st2 \in [req -> SirStates],
                                             again \in {"ok", "err"} :
                                            /\ \A s \in req :
                                                 st2[s] \in SirCancelled(st[s])
                                            /\ sirs' = Described(st2)
                                            /\ elapsed' = After(dt + 2 * PollInterval)
                                            /\ LaunchErr(self,
                                                 IF again = "ok"
                                                 THEN "wait limit reached"
                                                 ELSE "describe")
                           ELSE /\ sirs' = Described(st)
                                /\ elapsed' = slept
                                /\ UNCHANGED <<pc, ret, regions, ctxs, cur,
                                               dropping, l, todo, result, hist,
                                               calls, error, setups>>
    /\ UNCHANGED <<dropq, termReq, failed>>

\* A `continue` that gives the requests up: the pending map is cleared.
wait_for_spot_instance_requests_continue_drops ==
    /\ pc = "wait_spot_continue"
    /\ UNCHANGED <<durationVars, spawnVars, engineVars, connected>>
    /\ pc' = "wait_spot"
    /\ ctxs' = [ctxs EXCEPT ![cur].outstanding_spot_request_ids = <<>>]
    /\ UNCHANGED <<ret, regions, cur, dropping, dropq, l, todo, termReq,
                   failed, result, sirs, calls, hist, elapsed, error, setups>>

\* `continue` after the transient describe failure: back to the head of the
\* loop, past the sleep and the deadline check.
wait_for_spot_instance_requests_continue ==
    /\ pc = "wait_spot_continue"
    /\ UNCHANGED <<durationVars, spawnVars, engineVars, connected>>
    /\ pc' = "wait_spot"
    /\ UNCHANGED <<ret, regions, ctxs, cur, dropping, dropq, l, todo, termReq,
                   failed, result, sirs, calls, hist, elapsed, error, setups>>

\* ------------------------------------------ AWSRegion::wait_for_instances

\* An assignment of ipinfo that reaches every instance, ready or not.
WithIpinfo_all(self, set) ==
    [ self EXCEPT !.instances = [ i \in DOMAIN @ |-> [@[i] EXCEPT !.ipinfo = i] ] ]

\* self after the instances of `set` had their ipinfo assigned.
WithIpinfo(self, set) ==
    [ self EXCEPT !.instances =
        [ i \in DOMAIN @ |-> IF i \in set THEN [@[i] EXCEPT !.ipinfo = i] ELSE @[i] ] ]

\* The instance ids of the describe request: the keys of self.instances.
Tracked == IF cur = 0 THEN {} ELSE DOMAIN ctxs[cur].instances

\* setups after the instances of `set` were brought up once more.
Bump(set) ==
    [ i \in DOMAIN setups |->
        IF i \in set /\ setups[i] < 2 THEN setups[i] + 1 ELSE setups[i] ]

\* A readiness loop that logs a failed ssh connect or setup and goes on to
\* the next instance and the next poll.
wait_for_instances_goes_on(o, fail) ==
    /\ pc = "wait_inst"
    /\ UNCHANGED <<durationVars, spawnVars, engineVars, connected>>
    /\ \E dt \in Latency :
       LET self == ctxs[cur]
           now == After(dt)
       IN  IF Tracked = {}
           THEN LaunchOk(self, {})
           ELSE IF o = "err"
           THEN /\ LaunchErr(self, "describe")
                /\ elapsed' = now
           ELSE \E listed \in SUBSET Tracked :
                \E ready \in SUBSET listed :
                  IF fail = "none"
                  THEN LET all_ready == listed \subseteq ready
                           next == WithIpinfo(self, ready)
                       IN  IF l.max_wait = "Some" /\ now > Deadline
                           THEN /\ LaunchErr(next, "timed out")
                                /\ elapsed' = now
                           ELSE IF all_ready
                           THEN LaunchOk(next, listed \ ready)
                           ELSE /\ ctxs' = [ctxs EXCEPT ![cur] = next]
                                /\ elapsed' = now
                                /\ setups' = Bump(ready)
                                /\ hist' = [hist EXCEPT
                                              ![cur].seenReady = @ \cup ready]
                                /\ UNCHANGED <<pc, ret, regions, cur, dropping,
                                               l, todo, result, error>>
                  ELSE \E i \in ready :
                          /\ fail = "setup" => self.instances[i].m[2].setup
                          /\ ctxs' = [ctxs EXCEPT ![cur] =
                                        WithIpinfo(self, ready \ {i})]
                          /\ error' = fail
                          /\ elapsed' = now
                          /\ setups' = Bump(ready)
                          /\ UNCHANGED <<pc, ret, regions, cur, dropping, l,
                                         todo, result, hist>>
    /\ UNCHANGED <<dropq, termReq, failed, sirs, calls>>

\* One turn of `while !all_ready`, which takes dt ticks, or the return
\* without a turn when no instance is tracked.  o: describe_instances fails
\* ("err") or answers ("ok") with the instances `listed`, of which `ready`
\* match the pattern (code 16, instance id, public dns name and public ip
\* address) and are each connected to and set up.  fail: "none", or "ssh" /
\* "setup" when the connect to, or the setup closure of, instance i fails
\* after the instances `done` were handled.  The deadline is checked at the
\* end of the turn.
wait_for_instances(o, fail) ==
    /\ pc = "wait_inst"
    /\ UNCHANGED <<durationVars, spawnVars, engineVars, connected>>
    /\ \E dt \in Latency :
       LET self == ctxs[cur]
           now == After(dt)
       IN  IF Tracked = {}
           THEN LaunchOk(self, {})
           ELSE IF o = "err"
           THEN /\ LaunchErr(self, "describe")
                /\ elapsed' = now
           ELSE \E listed \in SUBSET Tracked :
                \E ready \in SUBSET listed :
                  CASE fail = "none" ->
                       LET all_ready == listed \subseteq ready
                           next == WithIpinfo(self, ready)
                       IN  IF l.max_wait = "Some" /\ now > Deadline
                           THEN /\ LaunchErr(next, "timed out")
                                /\ elapsed' = now
                           ELSE IF all_ready
                           THEN LaunchOk(next, listed \ ready)
                           ELSE /\ ctxs' = [ctxs EXCEPT ![cur] = next]
                                /\ elapsed' = now
                                /\ setups' = Bump(ready)
                                /\ hist' = [hist EXCEPT
                                              ![cur].seenReady = @ \cup ready]
                                /\ UNCHANGED <<pc, ret, regions, cur, dropping,
                                               l, todo, result, error>>
                    [] fail = "ssh" ->
                       \E i \in ready : \E done \in SUBSET (ready \ {i}) :
                          /\ LaunchErr(WithIpinfo(self, done), "ssh")
                          /\ elapsed' = now
                    [] fail = "setup" ->
                       \E i \in ready : \E done \in SUBSET (ready \ {i}) :
                          /\ self.instances[i].m[2].setup
                          /\ LaunchErr(WithIpinfo(self, done \cup {i}), "setup")
                          /\ elapsed' = now
    /\ UNCHANGED <<dropq, termReq, failed, sirs, calls>>

\* ------------------------------------------------------- connect_all

\* Iterator::collect into a HashMap of the <<key, value>> pairs of a
\* sequence: a later pair replaces an earlier one of the same key.
RECURSIVE collect(_)
collect(pairs) ==
    IF pairs = <<>> THEN {}
    ELSE LET rest == collect(SubSeq(pairs, 1, Len(pairs) - 1))
             p == pairs[Len(pairs)]
         IN  { q \in rest : q[1] # p[1] } \cup {p}

\* A connect_all that hands every machine out once: while the result of an
\* earlier call is held it finds no machine.
AWSRegion_connect_all_once(self, down, order) ==
    IF connected.result # "none"
    THEN [result |-> "ok", err |-> "", pairs |-> <<>>]
    ELSE [ result |-> "ok", err |-> "",
           pairs |-> [ k \in DOMAIN order |->
                         <<self.instances[order[k]].m[1], order[k]>> ] ]

\* AWSRegion::connect_all: the values of self.instances are visited in
\* `order`; one without ipinfo is Err("Machines not initialized"), one of
\* `down` fails its ssh connect; the first Err ends the collect.  The pairs
\* of an Ok are kept as the sequence the HashMap will hand out.
AWSRegion_connect_all(self, down, order) ==
    LET bad == { k \in DOMAIN order :
                   self.instances[order[k]].ipinfo = 0 \/ order[k] \in down }
        first == CHOOSE k \in bad : \A j \in bad : k <= j
    IN  IF bad # {}
        THEN [ result |-> "err",
               err |-> IF self.instances[order[first]].ipinfo = 0
                       THEN "Machines not initialized" ELSE "ssh",
               pairs |-> <<>> ]
        ELSE [ result |-> "ok", err |-> "",
               pairs |-> [ k \in DOMAIN order |->
                             <<self.instances[order[k]].m[1], order[k]>> ] ]

\* The collect! macro on the results rs of the regions, in the order the
\* values of the launcher's map are visited: the first Err is returned;
\* otherwise the pairs of all the regions are collected into one HashMap.
collect_all(rs) ==
    LET errs == { k \in DOMAIN rs : rs[k].result = "err" }
        first == CHOOSE k \in errs : \A j \in errs : k <= j
        Flat[k \in 0..Len(rs)] ==
            IF k = 0 THEN <<>> ELSE Flat[k - 1] \o rs[k].pairs
    IN  IF errs # {}
        THEN [result |-> "err", err |-> rs[first].err, map |-> {}]
        ELSE [result |-> "ok", err |-> "", map |-> collect(Flat[Len(rs)])]

\* The instances the launcher's map holds.
Held == UNION { DOMAIN ctxs[c].instances : c \in Range(regions) \ {0} }

\* AWSLauncher::connect_all: collect!(self.regions).  values is the order in
\* which the map hands out its AWSRegion values, down the instances whose
\* ssh connect fails, and visit the order in which the instance maps hand
\* out their entries (each region takes its own instances from it).  A
\* HashMap that was not changed since the last call iterates as it did then.
connect_all ==
    /\ pc = "idle"
    /\ UNCHANGED <<durationVars, spawnVars, engineVars>>
    /\ \E values \in Orders(Range(regions) \ {0}), down \in SUBSET Held,
          visit \in Orders(Held) :
         LET rs == [ k \in DOMAIN values |->
                       LET Mine(i) == i \in DOMAIN ctxs[values[k]].instances
                       IN  AWSRegion_connect_all(ctxs[values[k]], down,
                                                 SelectSeq(visit, Mine)) ]
             all == collect_all(rs)
         IN  /\ connected.result # "none" =>
                  values = connected.values /\ visit = connected.visit
             /\ connected' =
                  [ result |-> all.result, err |-> all.err, map |-> all.map,
                    values |-> values, visit |-> visit,
                    nth |-> IF connected.nth = 0 THEN 1 ELSE 2 ]
    /\ UNCHANGED <<pc, ret, regions, ctxs, cur, dropping, dropq, l, todo,
                   termReq, failed, result, sirs, calls, hist, elapsed, error,
                   setups>>

\* ------------------------------------------- impl Drop for AWSRegion

\* Where the caller goes on once drop has returned: back into launch's
\* return, or on to the next value of a discarded launcher's map.
AfterDrop ==
    CASE ret = "launcher" /\ dropq # {} ->
           \E c \in dropq :
             /\ dropping' = c
             /\ dropq' = dropq \ {c}
             /\ pc' = "drop"
             /\ UNCHANGED <<ret, result, error>>
      [] ret = "launcher" /\ dropq = {} ->
           /\ pc' = "gone"
           /\ dropping' = 0
           /\ UNCHANGED <<ret, dropq, result, error>>
      [] ret = "panic" ->
           /\ pc' = "unwound"
           /\ dropping' = 0
           /\ UNCHANGED <<ret, dropq, result, error>>
      [] OTHER ->
           /\ pc' = "idle"
           /\ dropping' = 0
           /\ result' = IF ret \in {"ok", "err"} THEN ret ELSE result
           /\ error' = "none"
           /\ UNCHANGED <<ret, dropq>>

\* Entry of drop: the unwrap of self.client and the expect of self.log (a
\* panic when they are None), then `if !self.instances.is_empty()`: the keys
\* are collected into the terminate request and self.instances is cleared.
drop ==
    /\ pc = "drop"
    /\ UNCHANGED <<durationVars, spawnVars, engineVars, connected>>
    /\ failed' = {}
    /\ elapsed' = 0
    /\ UNCHANGED <<error, setups>>
    /\ LET self == ctxs[dropping]
       IN  IF ~self.client \/ ~self.log
           THEN /\ pc' = "panicked"
                /\ UNCHANGED <<ctxs, termReq, hist>>
           ELSE /\ hist' = [hist EXCEPT ![dropping].dropCalls = @ + 1,
                                        ![dropping].dropInst = DOMAIN self.instances,
                                        ![dropping].dropReady =
                                            { i \in DOMAIN self.instances :
                                                self.instances[i].ipinfo # 0 },
                                        ![dropping].dropSg = self.security_group_id,
                                        ![dropping].dropKey = self.ssh_key_name]
                /\ IF DOMAIN self.instances # {}
                   THEN /\ termReq' = DOMAIN self.instances
                        /\ ctxs' = [ctxs EXCEPT ![dropping].instances = <<>>]
                        /\ pc' = "drop_terminate"
                   ELSE /\ pc' = "drop_sg"
                        /\ UNCHANGED <<ctxs, termReq>>
    /\ UNCHANGED <<ret, regions, cur, dropping, dropq, l, todo, result, sirs, calls>>

\* A terminate step whose fatal failure also gives up the security group.
terminate_instances_gives_up(o) ==
    /\ pc = "drop_terminate"
    /\ UNCHANGED <<durationVars, spawnVars, engineVars, connected>>
    /\ calls' = [calls EXCEPT !.terminate = @ \cup termReq]
    /\ pc' = CASE o = "transient" -> "drop_retry"
                [] o = "fatal" -> "drop_key"
                [] OTHER -> "drop_sg"
    /\ failed' = IF o = "fatal" THEN failed \cup {"terminate"} ELSE failed
    /\ termReq' = IF o = "transient" THEN termReq ELSE {}
    /\ UNCHANGED <<ret, regions, ctxs, cur, dropping, dropq, l, todo, result,
                   sirs, hist, elapsed, error, setups>>

\* One terminate_instances call of the `while let Err(e)` loop.  o: the call
\* succeeds ("ok"), fails with 'Pooled stream disconnected' or 'broken pipe'
\* ("transient"), or fails otherwise ("fatal": warn and break).
terminate_instances(o) ==
    /\ pc = "drop_terminate"
    /\ UNCHANGED <<durationVars, spawnVars, engineVars, connected>>
    /\ calls' = [calls EXCEPT !.terminate = @ \cup termReq]
    /\ pc' = IF o = "transient" THEN "drop_retry" ELSE "drop_sg"
    /\ failed' = IF o = "fatal" THEN failed \cup {"terminate"} ELSE failed
    /\ termReq' = IF o = "transient" THEN termReq ELSE {}
    /\ UNCHANGED <<ret, regions, ctxs, cur, dropping, dropq, l, todo, result,
                   sirs, hist, elapsed, error, setups>>

\* trace!("retrying instance termination"); continue
terminate_instances_continue ==
    /\ pc = "drop_retry"
    /\ UNCHANGED <<durationVars, spawnVars, engineVars, connected>>
    /\ pc' = "drop_terminate"
    /\ UNCHANGED <<ret, regions, ctxs, cur, dropping, dropq, l, todo, termReq,
                   failed, result, sirs, calls, hist, elapsed, error, setups>>

\* `if !self.security_group_id.trim().is_empty()`: one delete_security_group
\* call; its failure is logged.
delete_security_group(o) ==
    /\ pc = "drop_sg"
    /\ UNCHANGED <<durationVars, spawnVars, engineVars, connected>>
    /\ LET self == ctxs[dropping]
       IN  IF self.security_group_id # 0
           THEN /\ calls' = [calls EXCEPT !.delete_sg = @ \cup {self.security_group_id}]
                /\ failed' = IF o = "err" THEN failed \cup {"sg"} ELSE failed
           ELSE UNCHANGED <<calls, failed>>
    /\ pc' = "drop_key"
    /\ UNCHANGED <<ret, regions, ctxs, cur, dropping, dropq, l, todo, termReq,
                   result, sirs, hist, elapsed, error, setups>>

\* `if !self.ssh_key_name.trim().is_empty()`: one delete_key_pair call; its
\* failure is logged.  Then drop returns and the value is gone.
delete_key_pair(o) ==
    /\ pc = "drop_key"
    /\ UNCHANGED <<durationVars, spawnVars, engineVars, connected>>
    /\ LET self == ctxs[dropping]
       IN  IF self.ssh_key_name # 0
           THEN /\ calls' = [calls EXCEPT !.delete_key = @ \cup {self.ssh_key_name}]
                /\ failed' = IF o = "err" THEN failed \cup {"key"} ELSE failed
           ELSE UNCHANGED <<calls, failed>>
    /\ hist' = [hist EXCEPT ![dropping].tornDown = @ + 1]
    /\ ctxs' = [ctxs EXCEPT ![dropping] = Dropped]
    /\ AfterDrop
    /\ UNCHANGED <<regions, cur, l, todo, termReq, sirs, elapsed, setups>>

\* The launcher is discarded: its map drops every AWSRegion it holds.
drop_launcher ==
    /\ pc = "idle"
    /\ UNCHANGED <<durationVars, spawnVars, engineVars>>
    /\ failed' = {}
    /\ connected' = NoMachines
    /\ LET values == Range(regions) \ {0}
       IN  /\ regions' = [r \in RegionKeys |-> 0]
           /\ IF values = {}
              THEN /\ pc' = "gone"
                   /\ UNCHANGED <<ret, dropping, dropq>>
              ELSE \E c \in values :
                     /\ dropping' = c
                     /\ dropq' = values \ {c}
                     /\ ret' = "launcher"
                     /\ pc' = "drop"
    /\ sirs' = Settled
    /\ UNCHANGED <<ctxs, cur, l, todo, termReq, result, calls, hist, elapsed,
                   error, setups>>

\* An AWSRegion built by Default (the struct and its derive are public) goes
\* out of scope.
drop_default ==
    /\ pc = "idle"
    /\ UNCHANGED <<durationVars, spawnVars, engineVars>>
    /\ connected' = NoMachines
    /\ Len(ctxs) < MaxCtx
    /\ ctxs' = Append(ctxs, AWSRegion_default)
    /\ hist' = Append(hist, NewHist(FALSE))
    /\ dropping' = Len(ctxs) + 1
    /\ ret' = "default"
    /\ pc' = "drop"
    /\ failed' = {}
    /\ sirs' = Settled
    /\ UNCHANGED <<regions, cur, dropq, l, todo, termReq, result, calls, elapsed,
                   error, setups>>

\* ------------------------------------------------------- the dispatcher

MaxAdds == 3      \* pairs given to the dispatcher in one run

\* The nicknames and machine descriptors the dispatcher is given; of a
\* descriptor only MachineSetup::region() matters to it.
Names == {"a", "b", "c"}

Machines == [region : RegionKeys]

NoMachine == [region |-> ""]

\* No entry under a region key of the launcher's map.
NoValue == [id |-> 0, nicknames |-> {}]

Inputs == UNION { [1..n -> Names \X Machines] : n \in 0..MaxAdds }

\* TsunamiBuilder::default(), and a launcher that holds nothing.
SpawnInit ==
    /\ descriptors = [n \in Names |-> NoMachine]
    /\ addResult = "none"
    /\ given = <<>>
    /\ handed = <<>>
    /\ groups = <<>>
    /\ batches = <<>>
    /\ held = [r \in RegionKeys |-> NoValue]
    /\ torn = {}
    /\ launches = 0
    /\ spc = "build"
    /\ sresult = "none"
    /\ used = 0
    /\ spawn_max_wait = 0

\* TsunamiBuilder::timeout: self.max_wait = Some(t).  The caller sets it
\* before it adds machines.
timeout(t) ==
    /\ spc = "build"
    /\ used = 0 /\ addResult = "none" /\ spawn_max_wait = 0
    /\ UNCHANGED <<awsVars, durationVars, engineVars>>
    /\ spawn_max_wait' = t
    /\ UNCHANGED <<descriptors, addResult, given, handed, groups, batches, held,
                   torn, launches, spc, sresult, used>>

\* TsunamiBuilder::add: the insert comes first, so a second add under one
\* nickname replaces the machine and then returns Err.  The first add after
\* a spawn starts a new record of what the caller gave.  A caller that uses
\* the builder does not call Launcher::spawn itself.
add(nickname, m) ==
    /\ spc \in {"build", "returned"}
    /\ used = 0 \/ addResult # "none"
    /\ UNCHANGED <<awsVars, durationVars, engineVars>>
    /\ LET before == IF spc = "returned" THEN <<>> ELSE given
           ins == HashMap_insert(descriptors, nickname, m)
       IN  /\ used < MaxAdds
           /\ used' = used + 1
           /\ descriptors' = ins.map
           /\ addResult' = IF ins.old # NoMachine THEN "err" ELSE "ok"
           /\ given' = Append(before, <<nickname, m>>)
    /\ spc' = "build"
    /\ IF spc = "returned"
       THEN handed' = <<>> /\ batches' = <<>> /\ torn' = {}
       ELSE UNCHANGED <<handed, batches, torn>>
    /\ UNCHANGED <<groups, held, launches, sresult, spawn_max_wait>>

\* The head of both spawn functions: the pairs the iterator hands out are
\* keyed by region() and grouped with into_group_map; loopOrder is the order
\* in which the group map hands out its groups to the for loop.
Dispatch(pairs) ==
    LET gm == into_group_map([i \in 1..Len(pairs) |->
                                 <<pairs[i][2].region, pairs[i]>>])
    IN  /\ handed' = pairs
        /\ \E loopOrder \in Orders(DOMAIN gm) :
             groups' = [i \in 1..Len(loopOrder) |->
                          <<loopOrder[i], gm[loopOrder[i]]>>]
        /\ batches' = <<>>
        /\ torn' = {}
        /\ IF Len(pairs) = 0
           THEN spc' = "returned" /\ sresult' = "ok"
           ELSE spc' = "spawn" /\ UNCHANGED sresult

\* A spawn that reads the builder's descriptors and leaves them in place.
TsunamiBuilder_spawn_keeps ==
    /\ spc \in {"build", "returned"}
    /\ UNCHANGED <<awsVars, durationVars, engineVars>>
    /\ \E drainOrder \in Orders({ n \in Names : descriptors[n] # NoMachine }) :
         Dispatch([i \in 1..Len(drainOrder) |->
                     <<drainOrder[i], descriptors[drainOrder[i]]>>])
    /\ given' = IF spc = "returned" THEN <<>> ELSE given
    /\ UNCHANGED <<descriptors, addResult, held, launches, used, spawn_max_wait>>

\* TsunamiBuilder::spawn: self.descriptors.drain().collect() empties the
\* builder; the HashMap hands out its entries in the order drainOrder.
TsunamiBuilder_spawn ==
    /\ spc \in {"build", "returned"}
    /\ UNCHANGED <<awsVars, durationVars, engineVars>>
    /\ \E drainOrder \in Orders({ n \in Names : descriptors[n] # NoMachine }) :
         Dispatch([i \in 1..Len(drainOrder) |->
                     <<drainOrder[i], descriptors[drainOrder[i]]>>])
    /\ descriptors' = [n \in Names |-> NoMachine]
    /\ given' = IF spc = "returned" THEN <<>> ELSE given
    /\ UNCHANGED <<addResult, held, launches, used, spawn_max_wait>>

\* Launcher::spawn: the pairs come from the caller's iterator, in its order,
\* and max_wait is a parameter.  Its caller hands over all its pairs in
\* one call and does not use the builder.
Launcher_spawn ==
    /\ spc \in {"build", "returned"}
    /\ addResult = "none"
    /\ used = 0
    /\ spawn_max_wait = 0
    /\ UNCHANGED <<awsVars, durationVars, engineVars>>
    /\ \E input \in Inputs :
         /\ used' = used + Len(input)
         /\ Dispatch(input)
         /\ given' = input
    /\ \E t \in {0, Deadline} : spawn_max_wait' = t
    /\ UNCHANGED <<descriptors, addResult, held, launches>>

\* The time a launch may take when it is given the deadline mw and keeps
\* it; with no deadline one value stands for every time.
Durations(mw) == IF mw = 0 THEN {1} ELSE 1..mw

\* Launcher::launch as spawn sees it: Err leaves the launcher's map alone, Ok
\* inserts the new value under the region key and drops the one it replaced.
\* The value keeps the machines in a map of its own, so of the batch it
\* holds the nicknames, not their order.
Launcher_launch(map, dsc, id, ok) ==
    LET ins == HashMap_insert(map, dsc.region,
                 [id |-> id,
                  nicknames |-> { dsc.machines[i][1] : i \in DOMAIN dsc.machines }])
    IN  IF ok
        THEN [ map |-> ins.map,
               dropped |-> IF ins.old # NoValue THEN {ins.old.id} ELSE {} ]
        ELSE [ map |-> map, dropped |-> {} ]

\* A for loop that goes on to the next group after a launch failed.
launch_group_goes_on(ok) ==
    /\ spc = "spawn"
    /\ UNCHANGED <<awsVars, durationVars, engineVars>>
    /\ LET dsc == [region |-> Head(groups)[1], machines |-> Head(groups)[2]]
           res == Launcher_launch(held, dsc, launches + 1, ok)
       IN  /\ \E t \in Durations(spawn_max_wait) :
                batches' = Append(batches, [id |-> launches + 1,
                                            region |-> dsc.region,
                                            machines |-> dsc.machines,
                                            max_wait |-> spawn_max_wait,
                                            took |-> t, ok |-> ok])
           /\ launches' = launches + 1
           /\ held' = res.map
           /\ torn' = torn \cup res.dropped
           /\ groups' = Tail(groups)
           /\ IF Tail(groups) = <<>>
              THEN spc' = "returned" /\ sresult' = (IF ok THEN "ok" ELSE "err")
              ELSE UNCHANGED <<spc, sresult>>
    /\ UNCHANGED <<descriptors, addResult, given, handed, used, spawn_max_wait>>

\* One turn of spawn's for loop: the descriptor gets the region, the pairs
\* of the group and a copy of max_wait; launcher.launch(dsc)?, which takes
\* the time t.  After the last group spawn returns Ok(()).
launch_group(ok) ==
    /\ spc = "spawn"
    /\ UNCHANGED <<awsVars, durationVars, engineVars>>
    /\ LET dsc == [region |-> Head(groups)[1], machines |-> Head(groups)[2]]
           res == Launcher_launch(held, dsc, launches + 1, ok)
       IN  /\ \E t \in Durations(spawn_max_wait) :
                batches' = Append(batches, [id |-> launches + 1,
                                            region |-> dsc.region,
                                            machines |-> dsc.machines,
                                            max_wait |-> spawn_max_wait,
                                            took |-> t, ok |-> ok])
           /\ launches' = launches + 1
           /\ held' = res.map
           /\ torn' = torn \cup res.dropped
           /\ IF ~ok
              THEN /\ groups' = <<>>
                   /\ spc' = "returned"
                   /\ sresult' = "err"
              ELSE /\ groups' = Tail(groups)
                   /\ IF Tail(groups) = <<>>
                      THEN spc' = "returned" /\ sresult' = "ok"
                      ELSE UNCHANGED <<spc, sresult>>
    /\ UNCHANGED <<descriptors, addResult, given, handed, used, spawn_max_wait>>

SpawnNext ==
    \/ timeout(Deadline)
    \/ \E nickname \in Names, m \in Machines : add(nickname, m)
    \/ TsunamiBuilder_spawn
    \/ Launcher_spawn
    \/ \E ok \in BOOLEAN : launch_group(ok)

\* ------------------------------------------------------ the Azure engine

MaxAzCtx == 2     \* AzureRegion values constructed in one run

\* The batches given to AzureLauncher::launch: (nickname, Setup) pairs, of a
\* Setup only whether setup_fn is Some.
AzBatches ==
    { << <<"a", [setup_fn |-> FALSE]>> >>,
      << <<"a", [setup_fn |-> TRUE]>>, <<"b", [setup_fn |-> FALSE]>> >> }

\* #[derive(Default)] AzureRegion: log is None, the group name is empty.
AzureRegion_default ==
    [ log |-> FALSE, resource_group_name |-> 0, machines |-> <<>> ]

\* launch's local az_region when no launch is running.
NoRegion == [id |-> 0, key |-> ""]

\* AzureLauncher::default(), and a Machine built by Default.
Machine_default == [ log |-> FALSE, name |-> "", addr |-> 0 ]

EngineInit ==
    /\ azpc = "idle"
    /\ azRet = "none"
    /\ azResult = "none"
    /\ azRegions = [r \in RegionKeys |-> 0]
    /\ azCtxs = <<>>
    /\ azCur = NoRegion
    /\ azTodo = <<>>
    /\ azDone = <<>>
    /\ azDropping = 0
    /\ azDropq = {}
    /\ azGroups = <<>>
    /\ bm = Machine_default
    /\ bmpc = "alive"

\* AzureLauncher::launch up to the call of az_region.launch: AzureRegion::new
\* creates the resource group with the CLI (`?`) and only then builds the
\* value.  key is the region key of the descriptor.
AzureLauncher_launch(key, machines, o) ==
    /\ azpc = "idle"
    /\ UNCHANGED <<awsVars, durationVars, spawnVars>>
    /\ Len(azCtxs) < MaxAzCtx
    /\ IF o = "err"
       THEN /\ azResult' = "err"
            /\ UNCHANGED <<azpc, azCtxs, azCur, azTodo, azGroups>>
       ELSE /\ azCtxs' = Append(azCtxs,
                 [ log |-> TRUE, resource_group_name |-> Len(azCtxs) + 1,
                   machines |-> <<>> ])
            /\ azGroups' = Append(azGroups,
                 [exists |-> TRUE, vms |-> {}, made |-> TRUE, deletes |-> 0])
            /\ azCur' = [id |-> Len(azCtxs) + 1, key |-> key]
            /\ azTodo' = machines
            /\ azpc' = "vm"
            /\ UNCHANGED azResult
    /\ UNCHANGED <<azRet, azRegions, azDone, azDropping, azDropq, bm, bmpc>>

VmOutcomes ==
    {"ok", "create_vm_err", "open_ports_err", "ip_err", "ssh_err", "setup_err"}

\* AzureRegion::launch, one turn of the map over l.machines: create_vm,
\* open_ports, the parse of the address, the ssh connect and the setup
\* closure, each `?`.  On the first Err the collect stops, launch returns Err
\* and AzureLauncher::launch drops az_region.  After the last pair
\* self.machines is assigned and the value is inserted into the map.
AzureRegion_launch(o) ==
    /\ azpc = "vm"
    /\ UNCHANGED <<awsVars, durationVars, spawnVars>>
    /\ LET nickname == Head(azTodo)[1]
           desc == Head(azTodo)[2]
           c == azCur.id
           made == o # "create_vm_err"
       IN  /\ o = "setup_err" => desc.setup_fn
           /\ azGroups' = IF made
                           THEN [azGroups EXCEPT ![c].vms = @ \cup {nickname}]
                           ELSE azGroups
           /\ IF o # "ok"
              THEN /\ azDropping' = c
                   /\ azRet' = "err"
                   /\ azpc' = "drop"
                   /\ azCur' = NoRegion
                   /\ azTodo' = <<>>
                   /\ azDone' = <<>>
                   /\ UNCHANGED <<azCtxs, azRegions, azResult>>
              ELSE IF Len(azTodo) > 1
              THEN /\ azTodo' = Tail(azTodo)
                   /\ azDone' = Append(azDone, nickname)
                   /\ UNCHANGED <<azpc, azRet, azResult, azRegions, azCtxs,
                                  azCur, azDropping>>
              ELSE LET ins == HashMap_insert(azRegions, azCur.key, c)
                   IN  /\ azCtxs' = [azCtxs EXCEPT
                                        ![c].machines = Append(azDone, nickname)]
                       /\ azRegions' = ins.map
                       /\ azCur' = NoRegion
                       /\ azTodo' = <<>>
                       /\ azDone' = <<>>
                       /\ IF ins.old = 0
                          THEN /\ azpc' = "idle"
                               /\ azResult' = "ok"
                               /\ UNCHANGED <<azRet, azDropping>>
                          ELSE /\ azpc' = "drop"
                               /\ azDropping' = ins.old
                               /\ azRet' = "ok"
                               /\ UNCHANGED azResult
    /\ UNCHANGED <<azDropq, bm, bmpc>>

\* impl Drop for AzureRegion: delete_resource_group(..).unwrap().  o is what
\* the `az group delete` command answers; an Err is unwrapped into a panic,
\* which leaves the values a discarded map had yet to drop undropped.
AzureRegion_drop(o) ==
    /\ azpc = "drop"
    /\ UNCHANGED <<awsVars, durationVars, spawnVars>>
    /\ LET self == azCtxs[azDropping]
           rg == self.resource_group_name
       IN  IF o = "err"
           THEN /\ azpc' = "panicked"
                /\ azGroups' = IF rg # 0
                                THEN [azGroups EXCEPT ![rg].deletes = @ + 1]
                                ELSE azGroups
                /\ UNCHANGED <<azRet, azResult, azCtxs, azDropping, azDropq>>
           ELSE /\ azGroups' = IF rg # 0
                                THEN [azGroups EXCEPT ![rg].exists = FALSE,
                                                      ![rg].deletes = @ + 1]
                                ELSE azGroups
                /\ azCtxs' = [azCtxs EXCEPT ![azDropping] = AzureRegion_default]
                /\ CASE azRet = "launcher" /\ azDropq # {} ->
                           \E c \in azDropq :
                             /\ azDropping' = c
                             /\ azDropq' = azDropq \ {c}
                             /\ UNCHANGED <<azpc, azRet, azResult>>
                     [] azRet = "launcher" /\ azDropq = {} ->
                           /\ azpc' = "gone"
                           /\ azDropping' = 0
                           /\ UNCHANGED <<azRet, azResult, azDropq>>
                     [] OTHER ->
                           /\ azpc' = "idle"
                           /\ azDropping' = 0
                           /\ azResult' = IF azRet \in {"ok", "err"}
                                           THEN azRet ELSE azResult
                           /\ UNCHANGED <<azRet, azDropq>>
    /\ UNCHANGED <<azRegions, azCur, azTodo, azDone, bm, bmpc>>

\* The AzureLauncher is discarded: its map drops every AzureRegion it holds.
AzureLauncher_drop ==
    /\ azpc = "idle"
    /\ UNCHANGED <<awsVars, durationVars, spawnVars>>
    /\ LET values == Range(azRegions) \ {0}
       IN  /\ azRegions' = [r \in RegionKeys |-> 0]
           /\ IF values = {}
              THEN /\ azpc' = "gone"
                   /\ UNCHANGED <<azRet, azDropping, azDropq>>
              ELSE \E c \in values :
                     /\ azDropping' = c
                     /\ azDropq' = values \ {c}
                     /\ azRet' = "launcher"
                     /\ azpc' = "drop"
    /\ UNCHANGED <<azResult, azCtxs, azCur, azTodo, azDone, azGroups, bm, bmpc>>

\* An AzureRegion built by Default (the struct and its derive are public)
\* goes out of scope.
AzureRegion_drop_default ==
    /\ azpc = "idle"
    /\ UNCHANGED <<awsVars, durationVars, spawnVars>>
    /\ Len(azCtxs) < MaxAzCtx
    /\ azCtxs' = Append(azCtxs, AzureRegion_default)
    /\ azGroups' = Append(azGroups,
         [exists |-> FALSE, vms |-> {}, made |-> FALSE, deletes |-> 0])
    /\ azDropping' = Len(azCtxs) + 1
    /\ azRet' = "default"
    /\ azpc' = "drop"
    /\ UNCHANGED <<azResult, azRegions, azCur, azTodo, azDone, azDropq, bm, bmpc>>

\* -------------------------------------------------- the baremetal engine

\* The batches given to baremetal Machine::launch.
BmBatches == { <<>>, <<"a">>, <<"a", "b">> }

\* baremetal Machine::launch: self.log is set first; then Err on zero
\* machines, on try_addrs ("addr_err"), on the ssh connect or on the setup
\* closure; the other fields are assigned only on the way to Ok(()).
Machine_launch(machines, o) ==
    /\ bmpc = "alive"
    /\ UNCHANGED <<awsVars, durationVars, spawnVars>>
    /\ bm' = IF machines = <<>> \/ o # "ok"
             THEN [bm EXCEPT !.log = TRUE]
             ELSE [log |-> TRUE, name |-> Head(machines), addr |-> 1]
    /\ UNCHANGED <<azpc, azRet, azResult, azRegions, azCtxs, azCur, azTodo,
                   azDone, azDropping, azDropq, azGroups, bmpc>>

\* impl Drop for baremetal Machine: the expect on self.log, then debug! with
\* self.addr.unwrap() as a value.  evaluated: whether the build keeps debug
\* records, so that the value expression is run.
Machine_drop(evaluated) ==
    /\ bmpc = "alive"
    /\ UNCHANGED <<awsVars, durationVars, spawnVars>>
    /\ bmpc' = IF ~bm.log \/ (evaluated /\ bm.addr = 0)
               THEN "panicked"
               ELSE "gone"
    /\ UNCHANGED <<azpc, azRet, azResult, azRegions, azCtxs, azCur, azTodo,
                   azDone, azDropping, azDropq, azGroups, bm>>

EngineNext ==
    \/ \E key \in RegionKeys, machines \in AzBatches, o \in {"ok", "err"} :
          AzureLauncher_launch(key, machines, o)
    \/ \E o \in VmOutcomes : AzureRegion_launch(o)
    \/ \E o \in {"ok", "err"} : AzureRegion_drop(o)
    \/ AzureLauncher_drop
    \/ AzureRegion_drop_default
    \/ \E machines \in BmBatches,
          o \in {"ok", "addr_err", "ssh_err", "setup_err"} :
          Machine_launch(machines, o)
    \/ \E evaluated \in BOOLEAN : Machine_drop(evaluated)

\* ------------------------------------------ the duration policy (AWS)

\* The width of the integers of the duration policy: i64 in the source,
\* scaled down.
Width == 10

MinInt == -(2 ^ (Width - 1))

MaxInt == 2 ^ (Width - 1) - 1

\* x as the two's complement integer of Width bits it wraps to.
Wrap(x) == ((x - MinInt) % (2 ^ Width)) + MinInt

min(a, b) == IF a < b THEN a ELSE b

\* Default::default(): max_instance_duration_hours: 6.
DefaultHours == 6

\* The cap of set_max_instance_duration: std::cmp::min(t, 6).
MaxHours == 6

\* The cap of launch, std::cmp::min(360, ..), and its factor, `* 60`.
MaxMinutes == 360

MinutesPerHour == 60

\* The range of block durations the provider accepts, 1 to 6 hours.
ProviderMinMinutes == 60

ProviderMaxMinutes == 360

\* The values given to set_max_instance_duration: those around zero and
\* around the cap, and the ends of the integer type.
MaxGiven == 12

Given == (-MaxGiven .. MaxGiven) \cup {MinInt, MinInt + 1, MaxInt - 1, MaxInt}

DurationInit ==
    /\ max_instance_duration_hours = DefaultHours
    /\ block_duration_minutes = 0
    /\ dpc = "built"

\* set_max_instance_duration(t): the field becomes min(t, 6).
set_max_instance_duration(t) ==
    /\ dpc # "panicked"
    /\ max_instance_duration_hours' = min(t, MaxHours)
    /\ UNCHANGED <<block_duration_minutes, dpc>>
    /\ UNCHANGED <<awsVars, spawnVars, engineVars>>

\* The first argument launch gives to make_spot_instance_requests:
\* std::cmp::min(360, self.max_instance_duration_hours * 60).  A product out
\* of the range of the type panics in a build with overflow checks and
\* wraps in one without.
block_duration(checks) ==
    /\ dpc # "panicked"
    /\ LET product == max_instance_duration_hours * MinutesPerHour
       IN  IF checks /\ Wrap(product) # product
           THEN /\ dpc' = "panicked"
                /\ UNCHANGED block_duration_minutes
           ELSE /\ dpc' = "requested"
                /\ block_duration_minutes' = min(MaxMinutes, Wrap(product))
    /\ UNCHANGED max_instance_duration_hours
    /\ UNCHANGED <<awsVars, spawnVars, engineVars>>

DurationNext ==
    \/ \E t \in Given : set_max_instance_duration(t)
    \/ \E checks \in BOOLEAN : block_duration(checks)

\* ----------------------------------------------------------------- Spec

Init == AwsInit /\ DurationInit /\ SpawnInit /\ EngineInit

Outcome3 == {"ok", "transient", "fatal"}

Outcome2 == {"ok", "err"}

Next ==
    \/ launch
    \/ \E o \in {"ok", "err", "mismatch"} : make_spot_instance_requests(o)
    \/ \E o \in Outcome3 : wait_for_spot_instance_requests(o)
    \/ wait_for_spot_instance_requests_continue
    \/ \E o \in Outcome2, fail \in {"none", "ssh", "setup"} :
          wait_for_instances(o, fail)
    \/ drop
    \/ \E o \in Outcome3 : terminate_instances(o)
    \/ terminate_instances_continue
    \/ \E o \in Outcome2 : delete_security_group(o)
    \/ \E o \in Outcome2 : delete_key_pair(o)
    \/ drop_launcher
    \/ drop_default
    \/ connect_all

Spec == Init /\ [][Next]_vars

\* The steps of impl Drop for AWSRegion.
DropStep ==
    \/ drop
    \/ \E o \in Outcome3 : terminate_instances(o)
    \/ terminate_instances_continue
    \/ \E o \in Outcome2 : delete_security_group(o)
    \/ \E o \in Outcome2 : delete_key_pair(o)

\* The thread that runs a drop keeps running, and the provider keeps
\* answering its calls.
FairSpec == Spec /\ WF_vars(DropStep)

\* A turn of the readiness loop during which time passes.
ReadyTick ==
    /\ \E o \in Outcome2, fail \in {"none", "ssh", "setup"} :
          wait_for_instances(o, fail)
    /\ elapsed' > elapsed

\* While the readiness loop runs, its thread keeps taking turns and the
\* clock advances.
TimedSpec == Spec /\ WF_vars(ReadyTick)

\* The duration policy on its own.
DurationSpec == Init /\ [][DurationNext]_vars

\* The dispatcher on its own.
SpawnSpec == Init /\ [][SpawnNext]_vars

\* The Azure and the baremetal engine.
EngineSpec == Init /\ [][EngineNext]_vars

\* ------------------------------------------------- teardown (C1 .. C6)

\* The launcher still exists: it was neither discarded nor is it being
\* discarded.
LauncherAlive == pc # "gone" /\ ret # "launcher"

\* C1: every AWSRegion value that AWSRegion::new returned Ok is torn down
\* exactly once.  Its drop is never entered twice; while launch still holds it
\* the drop has not run; once launch has returned the value is either held by
\* the launcher's map and not torn down, or it has been torn down once (launch
\* failed, or a later launch replaced it); once the launcher has been discarded
\* every one of them has been torn down once.
C1_TornDownExactlyOnce ==
    /\ \A c \in DOMAIN hist :
         hist[c].dropCalls <= 1 /\ hist[c].tornDown <= hist[c].dropCalls
    /\ cur # 0 => hist[cur].dropCalls = 0
    /\ pc = "idle" =>
         \A c \in DOMAIN hist : hist[c].created =>
            IF c \in Range(regions)
            THEN hist[c].dropCalls = 0
            ELSE hist[c].tornDown = 1
    /\ pc = "gone" =>
         \A c \in DOMAIN hist : hist[c].created => hist[c].tornDown = 1

\* C1 witness: a second successful launch for the same region key has
\* replaced the value of the first, which was torn down while the launcher
\* still holds the second.
C1_Witness ==
    /\ pc = "idle"
    /\ Len(hist) = 2
    /\ hist[1].launched /\ hist[1].tornDown = 1
    /\ hist[2].launched /\ hist[2].dropCalls = 0
    /\ 2 \in Range(regions)

\* C2: once the drop of an AWSRegion value has returned, none of the spot
\* requests it issued is still open at the provider (open, or active with its
\* instance not yet reported), and every instance assigned to one of them has
\* had a terminate call issued for it.
C2_NoSpotRequestLeftOpen ==
    \A c \in DOMAIN hist : hist[c].tornDown >= 1 =>
        \A s \in DOMAIN sirs : sirs[s].owner = c =>
            /\ sirs[s].state \notin {"open", "active_noid"}
            /\ sirs[s].state = "active" => InstanceOf(s) \in calls.terminate

\* C4: a drop that has reached its terminate step always leaves it, whatever
\* the provider answers.
C4_TeardownTerminates ==
    (pc = "drop_terminate") ~> (pc \notin {"drop_terminate", "drop_retry"})

\* C5: the three steps of drop are independent: once drop has returned, a
\* terminate call was issued for every instance the value tracked, a
\* delete_security_group call for its group id and a delete_key_pair call for
\* its key name, whichever of the calls failed.
C5_StepsIndependent ==
    \A c \in DOMAIN hist : hist[c].tornDown >= 1 =>
        /\ hist[c].dropInst \subseteq calls.terminate
        /\ hist[c].dropSg # 0 => hist[c].dropSg \in calls.delete_sg
        /\ hist[c].dropKey # 0 => hist[c].dropKey \in calls.delete_key

\* C5 witness: a drop has returned in which the terminate call, the
\* delete_security_group call and the delete_key_pair call all failed.
C5_Witness ==
    /\ pc = "idle"
    /\ failed = {"terminate", "sg", "key"}
    /\ \E c \in DOMAIN hist : hist[c].tornDown = 1 /\ hist[c].dropInst # {}

\* C6: the drop of an AWSRegion value on which nothing was allocated (no
\* tracked instance, empty security_group_id, empty ssh_key_name) returns
\* normally.
C6_TeardownOfNothingSucceeds ==
    pc = "panicked" =>
        \/ DOMAIN ctxs[dropping].instances # {}
        \/ ctxs[dropping].security_group_id # 0
        \/ ctxs[dropping].ssh_key_name # 0

\* C3: no drop of an engine value raises: neither the drop of an AzureRegion
\* nor the drop of a baremetal Machine ends in a panic, whatever state the
\* value is in and whatever the CLI answers.
C3_TeardownNeverRaises ==
    azpc # "panicked" /\ bmpc # "panicked"

\* ------------------------------------------------ accumulation (C7)

\* C7: while the launcher exists, every AWSRegion value of a successful launch
\* is still held by the launcher's map, and none of the instances it tracked
\* when launch returned has had a terminate call issued for it.
C7_LaunchesAccumulate ==
    LauncherAlive =>
        \A c \in DOMAIN hist : hist[c].launched =>
            /\ c \in Range(regions)
            /\ hist[c].okInst \cap calls.terminate = {}

\* --------------------------------------------------- dispatch (C8 .. C10)

\* s is t with some of its elements left out: the relative order is kept.
IsSubSeq(s, t) ==
    \E f \in [1..Len(s) -> 1..Len(t)] :
        /\ \A i, j \in 1..Len(s) : i < j => f[i] < f[j]
        /\ \A i \in 1..Len(s) : s[i] = t[f[i]]

\* The pairs of `pairs` whose machine lies in region r, in their order.
OfRegion(pairs, r) ==
    LET InRegion(p) == p[2].region = r
    IN  SelectSeq(pairs, InRegion)

\* C8: when a launch of a spawn fails, it is the last launch call of that
\* spawn, spawn has returned the error, and every group launched before it is
\* still held by the launcher, as launched, and was not torn down.
C8_NoRollback ==
    \A k \in DOMAIN batches : ~batches[k].ok =>
        /\ k = Len(batches)
        /\ spc = "returned" /\ sresult = "err"
        /\ \A i \in 1..(k - 1) :
             /\ batches[i].ok
             /\ held[batches[i].region] =
                  [id |-> batches[i].id,
                   nicknames |-> { batches[i].machines[j][1] :
                                      j \in DOMAIN batches[i].machines }]
             /\ batches[i].id \notin torn

\* C8 witness: spawn returned an error from its second launch call, after the
\* launch of the first group had succeeded.
C8_Witness ==
    /\ spc = "returned" /\ sresult = "err"
    /\ Len(batches) = 2
    /\ batches[1].ok /\ ~batches[2].ok

\* C9: when spawn has returned Ok, launch was called once per distinct region
\* of the pairs handed in, and the batch of each call is exactly the pairs of
\* its region; so the batches are disjoint and together are the whole input.
C9_GroupingCorrect ==
    (spc = "returned" /\ sresult = "ok") =>
        LET rs == { handed[i][2].region : i \in DOMAIN handed }
        IN  /\ Len(batches) = Cardinality(rs)
            /\ { batches[k].region : k \in DOMAIN batches } = rs
            /\ \A k \in DOMAIN batches :
                 batches[k].machines = OfRegion(handed, batches[k].region)

\* C9 witness: a spawn of three pairs over two regions has returned Ok.
C9_Witness ==
    /\ spc = "returned" /\ sresult = "ok"
    /\ Len(handed) = 3
    /\ Len(batches) = 2

\* C10: the pairs of every batch handed to launch are in the relative order
\* in which the caller gave them: the order of the add calls, or of the
\* sequence given to spawn.
C10_OrderPreserved ==
    \A k \in DOMAIN batches : IsSubSeq(batches[k].machines, given)

\* ------------------------------------------------ nicknames (C11 .. C12)

\* The machine the caller gave first under nickname n.
FirstGiven(n) ==
    given[CHOOSE i \in DOMAIN given :
             /\ given[i][1] = n
             /\ \A j \in 1..(i - 1) : given[j][1] # n][2]

\* The caller went through the builder: it has called add.
ViaBuilder == addResult # "none"

\* C11: an add under a nickname that is already registered leaves the first
\* registration unchanged: the builder holds, and spawn later launches, under
\* every nickname the machine of the first add of that nickname.
C11_FirstRegistrationKept ==
    ViaBuilder =>
        /\ spc = "build" =>
             \A n \in Names : descriptors[n] # NoMachine =>
                descriptors[n] = FirstGiven(n)
        /\ \A k \in DOMAIN batches : \A i \in DOMAIN batches[k].machines :
             batches[k].machines[i][2] = FirstGiven(batches[k].machines[i][1])

\* Some nickname occurs twice in pairs.
HasDuplicate(pairs) ==
    \E i, j \in DOMAIN pairs : i # j /\ pairs[i][1] = pairs[j][1]

\* C12: when the pairs given to Launcher::spawn hold one nickname twice, no
\* launch call is made and spawn returns an error.
C12_DuplicateRejected ==
    (~ViaBuilder /\ HasDuplicate(given)) =>
        /\ batches = <<>>
        /\ spc = "returned" => sresult = "err"

\* ------------------------------------------------------ deadlines (C15)

RECURSIVE Waited(_)
\* The time the first k launch calls of the spawn took together.
Waited(k) == IF k = 0 THEN 0 ELSE Waited(k - 1) + batches[k].took

\* C15: the deadline of a spawn is one budget for all its groups: each group
\* is given what the groups before it left of the deadline, and the launch
\* calls of one spawn together take no longer than the deadline.
C15_DeadlineShared ==
    spawn_max_wait # 0 =>
        /\ \A k \in DOMAIN batches :
             batches[k].max_wait + Waited(k - 1) <= spawn_max_wait
        /\ Waited(Len(batches)) <= spawn_max_wait

\* ------------------------------------------------- connect_all (C13)

\* The nicknames of the machines AWSRegion value c tracks.
NicknamesOf(c) ==
    { ctxs[c].instances[i].m[1] : i \in DOMAIN ctxs[c].instances }

\* C13: connect_all fails when two regions of the launcher produce the same
\* nickname: it never returns Ok with a mapping that kept one of the two
\* machines and dropped the other.
C13_MergeFailsOnCollision ==
    connected.result = "ok" =>
        /\ \A c, d \in Range(regions) \ {0} :
             c # d => NicknamesOf(c) \cap NicknamesOf(d) = {}
        /\ { p[2] : p \in connected.map } = Held

\* ------------------------------------------------ fulfilment (C14)

\* C14: when wait_for_spot_instance_requests returns the timeout error, no
\* more than one poll interval has passed since the deadline, and a cancel
\* call has been issued for every outstanding request id.
C14_TimeoutPropagates ==
    (pc = "drop" /\ error = "wait limit reached") =>
        /\ elapsed <= Deadline + PollInterval
        /\ DOMAIN ctxs[dropping].outstanding_spot_request_ids \subseteq calls.cancel

\* ------------------------------------------------ readiness (C16 .. C20)

\* C16: within one launch no instance is connected to and set up more than
\* once.
C16_SetupOnce ==
    \A i \in DOMAIN setups : setups[i] <= 1

\* C17: once launch has returned Ok, every instance of the region has its
\* address pair, and connect_all never fails with 'Machines not initialized'.
C17_ReadyOnSuccess ==
    /\ \A c \in DOMAIN hist : hist[c].launched =>
         \A i \in DOMAIN ctxs[c].instances : ctxs[c].instances[i].ipinfo # 0
    /\ connected.err # "Machines not initialized"

\* The positions of the caller inside impl Drop for AWSRegion.
DropPcs == {"drop", "drop_terminate", "drop_retry", "drop_sg", "drop_key"}

\* C18: once the ssh connect to, or the setup of, one instance has failed,
\* the readiness loop is over: launch is on its way out with an Err, no
\* launch stage is running and launch no longer holds the AWSRegion.
C18_FailureAborts ==
    error \in {"ssh", "setup"} =>
        /\ pc \in DropPcs
        /\ ret = "err"
        /\ cur = 0 /\ setups = <<>>

\* C18 witness: the ssh connect to one instance failed after its sibling had
\* been brought up, and launch is returning the error.
C18_Witness ==
    /\ pc = "drop" /\ error = "ssh"
    /\ \E i, j \in DOMAIN ctxs[dropping].instances :
         /\ ctxs[dropping].instances[i].ipinfo # 0
         /\ ctxs[dropping].instances[j].ipinfo = 0

\* C19: a launch that fails because the ssh connect to, or the setup of, one
\* instance failed leaves the instances that were ready allocated: of those,
\* at most the offending one has had a terminate call issued for it while
\* the launch returns.
C19_SiblingsLeftAllocated ==
    (dropping # 0 /\ ret = "err" /\ error \in {"ssh", "setup"}) =>
        Cardinality(hist[dropping].dropReady \cap calls.terminate) <= 1

\* C20: with a deadline the readiness stage ends, and when instances are
\* still not ready as it ends, it ends with an Err (the timeout), never
\* with Ok; after the timeout error the drop that follows issues a terminate
\* call that covers every instance tracked at that moment, ready or not.
C20_TimeoutThenTeardown ==
    /\ [][(/\ pc = "wait_inst" /\ l.max_wait = "Some" /\ pc' # "wait_inst"
           /\ \E i \in DOMAIN ctxs'[cur].instances :
                 ctxs'[cur].instances[i].ipinfo = 0)
            => (pc' = "drop" /\ ret' = "err" /\ dropping' = cur)]_vars
    /\ []((error = "timed out" /\ pc \in {"drop_retry", "drop_sg", "drop_key"})
            => /\ hist[dropping].dropInst # {}
               /\ hist[dropping].dropInst \subseteq calls.terminate)
    /\ ((pc = "wait_inst" /\ l.max_wait = "Some" /\ Tracked # {})
          ~> (pc # "wait_inst"))

\* ------------------------------------------- fulfilment stage (C21..)

\* The spot requests AWSRegion value c issued, as the provider last
\* answered for them.
RequestsOf(c) == { s \in DOMAIN sirs : sirs[s].owner = c }

\* C21: a request that ended failed or cancelled while no request is
\* pending is dropped.  The fulfilment stage fails only on a failed call or
\* past its deadline; when it hands over to the readiness stage, exactly the
\* active requests have become instances; and no Ok of connect_all holds
\* the instance of a request that is not active.
C21_FailedRequestDropped ==
    /\ [][(pc = "wait_spot" /\ pc' = "drop")
            => \/ error' = "describe"
               \/ l.max_wait = "Some" /\ elapsed' > Deadline]_vars
    /\ [](pc = "wait_inst" =>
            DOMAIN ctxs[cur].instances =
              { InstanceOf(s) : s \in { r \in RequestsOf(cur) :
                                          sirs[r].state = "active" } })
    /\ [](connected.result = "ok" =>
            \A q \in connected.map : sirs[q[2]].state = "active")

\* C21 witness: connect_all returned a machine of a region one of whose
\* requests had failed.
C21_Witness ==
    /\ connected.result = "ok" /\ connected.map # {}
    /\ \E c \in Range(regions) \ {0} : \E s, r \in RequestsOf(c) :
         /\ sirs[s].state = "failed"
         /\ sirs[r].state = "active" /\ \E q \in connected.map : q[2] = InstanceOf(r)

\* C22: connect_all changes neither the instances nor the outstanding
\* requests of any AWSRegion, nor the launcher's map, nor anything at the
\* provider; and a call made while the Ok of the call before it is held
\* returns, when it is Ok too, the same mapping.
C22_ConnectAllReadOnly ==
    [][connect_all =>
         /\ UNCHANGED <<ctxs, regions, sirs, calls>>
         /\ (connected.result = "ok" /\ connected'.result = "ok")
               => connected'.map = connected.map]_vars

\* C22 witness: connect_all was called twice in a row on a launcher that
\* holds two regions, and both calls returned machines.
C22_Witness ==
    /\ connected.nth = 2 /\ connected.result = "ok" /\ connected.map # {}
    /\ Len(connected.values) = 2

\* C23: a record without its address pair is left out of the result of
\* connect_all and does not make it fail: connect_all fails only when an ssh
\* connect fails, and its Ok holds exactly the nicknames of the records
\* that have their address pair.
C23_AbsentOmitted ==
    connected.result # "none" =>
        /\ connected.result = "err" => connected.err = "ssh"
        /\ connected.result = "ok" =>
             { q[1] : q \in connected.map } =
               { ctxs[c].instances[i].m[1] :
                   <<c, i>> \in { x \in (Range(regions) \ {0}) \X Held :
                                    /\ x[2] \in DOMAIN ctxs[x[1]].instances
                                    /\ ctxs[x[1]].instances[x[2]].ipinfo # 0 } }

\* ------------------------------------------------ the Azure engine (C24)

\* C24: every VM is created in the resource group of its region while that
\* group has not been deleted; no group is deleted twice; and once a launch
\* has returned or the launcher was discarded, exactly one delete was issued
\* for every resource group that the launcher does not hold.
C24_GroupDeletedOnce ==
    /\ \A g \in DOMAIN azGroups :
         /\ azGroups[g].deletes <= 1
         /\ azGroups[g].deletes = 1 => azCur.id # g
    /\ azpc \in {"idle", "gone", "panicked"} =>
         \A g \in DOMAIN azGroups :
            (azGroups[g].made /\ g \notin Range(azRegions)) =>
               azGroups[g].deletes = 1

\* ------------------------------------------- the duration policy (C25)

\* C25: whatever integer was given to set_max_instance_duration, the block
\* duration that launch sends with its requests lies within the range the
\* provider allows, 60 to 360 minutes.
C25_DurationInRange ==
    dpc = "requested" =>
        /\ ProviderMinMinutes <= block_duration_minutes
        /\ block_duration_minutes <= ProviderMaxMinutes

\* ------------------------------------------- fulfilment stage (C26..)

\* C26: once the fulfilment stage has returned, with Ok or with the timeout
\* error, outstanding_spot_request_ids of its AWSRegion is empty.
C26_NoOutstandingLeft ==
    /\ pc = "wait_inst" =>
         DOMAIN ctxs[cur].outstanding_spot_request_ids = {}
    /\ (pc = "drop" /\ error = "wait limit reached") =>
         DOMAIN ctxs[dropping].outstanding_spot_request_ids = {}

\* C27: with a deadline the fulfilment loop looks at it between any two
\* status queries, whatever the provider answers: the loop never begins
\* another query once more than the deadline has passed.
C27_DeadlineObserved ==
    (pc \in {"wait_spot", "wait_spot_continue"} /\ l.max_wait = "Some") =>
        elapsed <= Deadline

\* C28: the readiness stage is given what the fulfilment stage left of the
\* deadline: it goes on only while the time the fulfilment stage took and
\* its own time together lie within the deadline.
C28_RemainingBudget ==
    (pc = "wait_inst" /\ l.max_wait = "Some") =>
        elapsed <= Deadline - hist[cur].spotTook

\* C29: the describe call made after the cancel of a timed-out fulfilment
\* stage changes nothing in the AWSRegion: while launch is on its way out
\* with 'wait limit reached' the value tracks no instance, so its drop skips
\* the terminate step, and no terminate call is issued for an instance of
\* one of its requests, assigned or not.
C29_GatheredNotTracked ==
    error = "wait limit reached" =>
        /\ pc \in {"drop", "drop_sg", "drop_key"}
        /\ DOMAIN ctxs[dropping].instances = {}
        /\ termReq = {}
        /\ \A s \in RequestsOf(dropping) : InstanceOf(s) \notin calls.terminate

\* C29 witness: the fulfilment stage timed out, the provider assigned an
\* instance to one of its requests before the cancel took effect, and the
\* drop has gone past its terminate step.
C29_Witness ==
    /\ error = "wait limit reached" /\ pc = "drop_sg"
    /\ \E s \in RequestsOf(dropping) : sirs[s].state = "active"

\* The states of a request that is pending: open, or active with no instance
\* id in the answer.
PendingStates == {"open", "active_noid"}

\* C30: the fulfilment loop goes round again only after an answer in which
\* a request is pending, and it returns Ok only on an answer in which none
\* is; then every active request of the answer has become an instance under
\* its instance id, with the (nickname, setup) pair it was requested for and
\* without an address pair.
C30_ExitsWhenNonePending ==
    [][/\ (pc = "wait_spot" /\ pc' = "wait_spot") =>
             \E s \in SpotReq : sirs'[s].state \in PendingStates
       /\ (pc = "wait_spot" /\ (pc' = "wait_inst" \/ error' = "panic")) =>
             \A s \in SpotReq :
                /\ sirs'[s].state \notin PendingStates
                /\ sirs'[s].state = "active" =>
                     /\ InstanceOf(s) \in DOMAIN ctxs'[cur].instances
                     /\ ctxs'[cur].instances[InstanceOf(s)] =
                          [ ipinfo |-> 0,
                            m |-> ctxs[cur].outstanding_spot_request_ids[s] ]
      ]_vars

\* C30 witness: the loop went round at least once before its requests were
\* answered as active, and the readiness stage has taken over two
\* instances without address pairs.
C30_Witness ==
    /\ pc = "wait_inst" /\ hist[cur].spotTook >= Deadline
    /\ Cardinality(DOMAIN ctxs[cur].instances) = MaxSirs
    /\ \A i \in DOMAIN ctxs[cur].instances : ctxs[cur].instances[i].ipinfo = 0

\* C31: a describe failure of the fulfilment loop that says the request id
\* does not exist is swallowed: the loop goes back to its head with the
\* pending map, the instances, the provider's requests and the calls issued
\* all unchanged.  Any other describe failure ends the stage at once: launch
\* is on its way out with the Err and polls no more.
C31_TransientSwallowed ==
    /\ [][(pc = "wait_spot" /\ pc' = "wait_spot_continue")
            => UNCHANGED <<ctxs, sirs, calls, cur>>]_vars
    /\ [][pc = "wait_spot_continue"
            => (pc' = "wait_spot" /\ UNCHANGED <<ctxs, sirs, calls, cur>>)]_vars
    /\ [][(pc = "wait_spot" /\ error' = "describe")
            => (pc' = "drop" /\ ret' = "err" /\ cur' = 0 /\ dropping' = cur)]_vars
    /\ [](error = "describe" => pc \in DropPcs)

\* C31 witness: the loop is back at its head after a swallowed failure, with
\* its requests still pending.
C31_Witness ==
    /\ pc = "wait_spot_continue"
    /\ DOMAIN ctxs[cur].outstanding_spot_request_ids # {}

\* ------------------------------------------- request issuance (C32)

\* The (ami, instance_type) key of a (name, setup) pair.
KeyOf(m) == <<m[2].ami, m[2].instance_type>>

C33_OnlyReadyPromoted ==
    /\ pc = "wait_inst" =>
         \A i \in Tracked :
            (ctxs[cur].instances[i].ipinfo # 0 \/ setups[i] > 0)
               => i \in hist[cur].seenReady
    /\ \A c \in DOMAIN hist : hist[c].launched => hist[c].okPending = {}

\* C33 witness: the readiness loop has brought one instance up while the
\* other has not been listed as ready yet.
C33_Witness ==
    /\ pc = "wait_inst"
    /\ \E i, j \in Tracked :
         /\ ctxs[cur].instances[i].ipinfo # 0 /\ setups[i] > 0
         /\ j \notin hist[cur].seenReady /\ ctxs[cur].instances[j].ipinfo = 0

\* ------------------------------------------------ teardown (C34..)

\* C34: the terminate step of drop is retried only after a failure with one
\* of the transient messages.  A call that fails otherwise is the last one:
\* the step is left for the delete_security_group step, no terminate call
\* is made after it, and the drop still issues its delete_security_group
\* and delete_key_pair calls.
C34_TerminateRetriedOnlyOnTransient ==
    /\ [](pc \in {"drop_terminate", "drop_retry"} => "terminate" \notin failed)
    /\ [][(pc = "drop_terminate" /\ "terminate" \in failed')
            => (pc' = "drop_sg" /\ termReq' = {})]_vars
    /\ [][(pc = "drop_key" /\ pc' # "drop_key" /\ "terminate" \in failed)
            => /\ hist[dropping].dropSg # 0 =>
                    hist[dropping].dropSg \in calls'.delete_sg
               /\ hist[dropping].dropKey # 0 =>
                    hist[dropping].dropKey \in calls'.delete_key]_vars

\* C34 witness: a terminate call for tracked instances failed for good, the
\* step was abandoned and the drop stands at its security group step.
C34_Witness ==
    /\ pc = "drop_sg" /\ "terminate" \in failed
    /\ hist[dropping].dropInst # {}
    /\ hist[dropping].dropSg # 0

\* ------------------------------------------------ stage order (C35)

\* C35: the stages of one launch follow one another.  While the fulfilment
\* loop polls, every group of the batch has been asked for; while the
\* readiness loop polls, no request of the launch is pending; and the calls
\* of a drop (terminate, delete_security_group, delete_key_pair) are issued
\* only for a value that launch no longer holds, so none while one of its
\* stages runs.
C35_StagesInOrder ==
    /\ [](pc \in {"wait_spot", "wait_spot_continue"} =>
            /\ todo = <<>>
            /\ Cardinality(RequestsOf(cur)) = Len(l.machines))
    /\ [](pc = "wait_inst" =>
            /\ todo = <<>>
            /\ \A s \in RequestsOf(cur) : sirs[s].state \notin PendingStates)
    /\ [](cur # 0 => hist[cur].dropCalls = 0 /\ dropping # cur)
    /\ [][(\/ calls'.terminate # calls.terminate
           \/ calls'.delete_sg # calls.delete_sg
           \/ calls'.delete_key # calls.delete_key)
            => (pc \in DropPcs /\ dropping # 0 /\ dropping # cur)]_vars

\* C35 witness: the readiness loop polls for a batch that was asked for in
\* two request_spot_instances calls.
C35_Witness ==
    /\ pc = "wait_inst"
    /\ \E s, r \in RequestsOf(cur) :
         sirs[s].call # sirs[r].call /\ sirs[s].state = "active"

\* C36: once the drop of an AWSRegion value has returned, a
\* delete_security_group call was issued for the security group and a
\* delete_key_pair call for the key pair that were created for it at the
\* provider, also when AWSRegion::new failed after creating them.
C36_PartialCreationCleaned ==
    \A c \in DOMAIN hist : hist[c].tornDown >= 1 =>
        /\ c \in calls.create_sg => c \in calls.delete_sg
        /\ c \in calls.create_key => c \in calls.delete_key

\* ------------------------------------------------ deadlines (C37, C38)

\* C37: launch does not panic between its two waiting stages: whatever the
\* deadline and however long the fulfilment stage took, launch goes on to
\* the readiness stage or returns an Err.
C37_BudgetNeverUnderflows ==
    error # "panic" /\ pc # "unwound"

\* C38: wait_for_instances returns its timeout error only while an instance
\* it tracks is still without its address pair: a turn that found every
\* instance ready and brought every one up ends in Ok.
C38_TimeoutOnlyWhenNotReady ==
    (pc = "drop" /\ error = "timed out") =>
        \E i \in DOMAIN ctxs[dropping].instances :
            ctxs[dropping].instances[i].ipinfo = 0

\* ------------------------------------------------ the builder (C39)

\* C39: while a spawn runs and after it returned, with Ok or with Err, the
\* builder holds no descriptor; and a spawn on a builder that got no add
\* since its last spawn makes no launch call and returns Ok.
C39_SpawnEmptiesBuilder ==
    /\ [](spc \in {"spawn", "returned"} =>
            \A n \in Names : descriptors[n] = NoMachine)
    /\ [][(spc = "returned" /\ used > 0 /\ spc' # "build") =>
            /\ spc' = "returned"
            /\ sresult' = "ok"
            /\ launches' = launches
            /\ handed' = <<>>]_vars

\* A spawn returned Err before it had attempted every region it was given.
C39_Witness ==
    /\ spc = "returned"
    /\ sresult = "err"
    /\ used > 0
    /\ Len(batches) < Cardinality({ handed[i][2].region : i \in DOMAIN handed })
    /\ \A n \in Names : descriptors[n] = NoMachine

\* ------------------------------------------- the two maps (C40)

\* The nicknames of the machines AWSRegion value c still has pending.
PendingNicknamesOf(c) ==
    { ctxs[c].outstanding_spot_request_ids[s][1] :
        s \in DOMAIN ctxs[c].outstanding_spot_request_ids }

====
